---- MODULE Spec2Model ----
(***************************************************************************)
(* Model of the Gira System 3000 BLE client (gira_ble.py) and its cover    *)
(* entity (cover.py).                                                      *)
(*                                                                         *)
(* send_command runs on a single-threaded asyncio event loop: a task runs  *)
(* without interruption from one await to the next, so every action below  *)
(* is the code between two suspension points.  The suspension points of    *)
(* send_command are the lock queue (line 139), write_gatt_char (146, 177), *)
(* disconnect (151, 186) and establish_connection (163);                   *)
(* async_ble_device_from_address (156) is a synchronous call.              *)
(***************************************************************************)
EXTENDS Integers, Sequences, FiniteSets, TLC

(* ------------------------------ bounds --------------------------------- *)
MaxSends == 4        \* send_command calls in a behaviour, all may be concurrent
NumObservers == 2    \* entities that may listen to the coordinator

\* A task is one call of send_command, named by its arrival number: task t
\* is the t-th call made on the client.
Tasks == 1..MaxSends
\* the number of method calls in the specifications of the methods
MaxInvokes == 2
Observers == 1..NumObservers

(* ------------------------- protocol constants -------------------------- *)
COMMAND_PREFIX == <<246, 3, 32, 1>>                  \* F6 03 20 01
COMMAND_SUFFIX == <<16, 1>>                          \* 10 01
PROPERTY_ID_MOVE == 255
PROPERTY_ID_STOP == 253
PROPERTY_ID_STEP == 254
PROPERTY_ID_SET_POSITION == 252
VALUE_UP == 0
VALUE_DOWN == 1
VALUE_STOP == 0
GIRA_MANUFACTURER_ID == 1412
BROADCAST_PREFIX == <<247, 3, 32, 1, 246, 16, 1>>    \* F7 03 20 01 F6 10 01

\* Python's None, and a present value v, for the Optional values of the code.
None == <<>>
Some(v) == <<v>>

\* self._client is None / the local client is None
NoClient == 0

\* establish_connection(..., max_attempts=3)
max_attempts == 3

(* ------------------------------ codec ---------------------------------- *)
\* int.to_bytes(1, 'big') of a value that fits one byte
to_bytes(v) == <<v>>

_generate_command_swapped(property_id, value) ==
    COMMAND_PREFIX \o to_bytes(value) \o COMMAND_SUFFIX \o to_bytes(property_id)
_generate_command(property_id, value) ==
    COMMAND_PREFIX \o to_bytes(property_id) \o COMMAND_SUFFIX \o to_bytes(value)

\* the frames the callers of this model hand to send_command
Commands ==
    { _generate_command(PROPERTY_ID_MOVE, VALUE_UP),
      _generate_command(PROPERTY_ID_STOP, VALUE_STOP) }

(* --------------------------- broadcast decoder ------------------------- *)
\* bytes.startswith
startswith_length(bytes, prefix) == Len(bytes) >= Len(prefix)
startswith(bytes, prefix) ==
    /\ Len(bytes) >= Len(prefix)
    /\ SubSeq(bytes, 1, Len(prefix)) = prefix

\* dict.get(key): None when the key is absent
get(dict, key) == IF key \in DOMAIN dict THEN Some(dict[key]) ELSE None

\* round(100 * (255 - position_byte) / 255); the quotient is never half-way
\* between two integers (200*(255-b) is even, 255*(2k+1) is odd), so Python's
\* round-half-even is rounding to the nearest integer.
ha_position_truncated(position_byte) == (100 * (255 - position_byte)) \div 255
ha_position(position_byte) ==
    (200 * (255 - position_byte) + 255) \div 510

parse_gira_broadcast(service_info) ==
    LET manufacturer_data == get(service_info.manufacturer_data, GIRA_MANUFACTURER_ID)
    IN  IF manufacturer_data = None \/ Len(manufacturer_data[1]) = 0
          THEN None
        ELSE IF \/ ~startswith(manufacturer_data[1], BROADCAST_PREFIX)
                \/ Len(manufacturer_data[1]) # 8
          THEN None
        ELSE Some(ha_position(manufacturer_data[1][8]))

(* ------------------------------ state ---------------------------------- *)
VARIABLES
    pc,            \* per task: where its send_command is suspended
    locked,        \* asyncio.Lock._locked of self._is_connecting
    waiters,       \* asyncio.Lock._waiters, in arrival order (tasks)
    woken,         \* waiters whose future has a result but did not resume yet
    _client,       \* self._client: NoClient or the id of the cached handle
    is_connected,  \* is_connected of the handle created last
    client,        \* per task: the local variable client of send_command
    command,       \* per task: the argument command
    order,         \* history: arrival numbers in the order the lock was taken
    stat,          \* history, per task: what the current send did so far
    done,          \* history: what the send that returned last did
    data,          \* coordinator.data
    listeners,     \* observers subscribed to the coordinator
    notified,      \* observers whose callback the last handle_broadcast ran
    lastIngest,    \* history: the last handle_broadcast call
    lastValid,     \* history: position of the last valid broadcast
    intent,        \* per task: the method the caller invoked, with its argument
    _attr_available, \* GireaSystem3000Cover._attr_available
    decodeIn,      \* the advertisement last handed to parse_gira_broadcast
    decodeOut      \* what parse_gira_broadcast returned for it

sessionVars == <<pc, locked, waiters, woken, _client, is_connected, client,
                 command, order, stat, done>>
publisherVars == <<data, listeners, notified, lastIngest, lastValid>>
callerVars == <<intent, _attr_available>>
decoderVars == <<decodeIn, decodeOut>>
vars == <<pc, locked, waiters, woken, _client, is_connected, client,
          command, order, stat, done,
          data, listeners, notified, lastIngest, lastValid,
          intent, _attr_available, decodeIn, decodeOut>>

InBody == {"direct_write", "direct_disconnect", "connecting", "writing", "closing"}

\* what a send has done so far (history only; the code does not read it)
InitStat ==
    [ queued       |-> FALSE,    \* the send had to wait for the lock
      after        |-> "none",   \* outcome of the send that returned before it
      cachedAtStart |-> FALSE,   \* self._client was set when the lock was taken
      nResolve     |-> 0,        \* async_ble_device_from_address calls
      nOpen        |-> 0,        \* establish_connection calls
      nAttempt     |-> 0,        \* attempts of the establish_connection in progress
      nDirectWrite |-> 0,        \* write_gatt_char(response=False) calls
      nAckWrite    |-> 0,        \* write_gatt_char(response=True) calls
      nWriteOk     |-> 0,        \* write_gatt_char calls that returned
      nClose       |-> 0,        \* disconnect calls
      wrote        |-> {},       \* the frames handed to write_gatt_char
      opened       |-> FALSE,    \* establish_connection returned a handle
      closeErr     |-> FALSE,    \* a disconnect call raised
      connectedAtFinally |-> FALSE, \* client.is_connected at line 184
      pending      |-> "none" ]  \* outcome decided before the finally clause

InitDone == InitStat @@ [outcome |-> "none", task |-> 0, clientAfter |-> NoClient,
                         command |-> <<>>,        \* the frame it was called with
                         anyCloseErr |-> FALSE]   \* a disconnect raised so far

\* the caller of a task: which method it invoked, with which argument, and
\* whether through the cover entity
NoIntent == [name |-> "none", arg |-> 0, via |-> "none"]
\* send_command called as such, by any caller of the client
DirectCall == [name |-> "send_command", arg |-> 0, via |-> "client"]

Init ==
    /\ pc = [t \in Tasks |-> "idle"]
    /\ locked = FALSE
    /\ waiters = <<>>
    /\ woken = {}
    /\ _client = NoClient
    /\ is_connected = FALSE
    /\ client = [t \in Tasks |-> NoClient]
    /\ command = [t \in Tasks |-> <<>>]
    /\ order = <<>>
    /\ stat = [t \in Tasks |-> InitStat]
    /\ done = InitDone
    /\ data = None
    /\ listeners = {}
    /\ notified = {}
    /\ lastIngest = [kind |-> "none", same |-> FALSE, listeners |-> {},
                     inflight |-> FALSE]
    /\ lastValid = None
    /\ intent = [t \in Tasks |-> NoIntent]
    /\ _attr_available = TRUE
    /\ decodeIn = None
    /\ decodeOut = None


(* ------------------- asyncio.Lock (self._is_connecting) ---------------- *)
\* Lock.acquire takes the lock at once only when it is free and nobody is
\* queued (no waiter is ever cancelled: nothing cancels a send).
LockFreeUnqueued(lk, ws) == ~lk
LockFree(lk, ws) == ~lk /\ ws = <<>>

\* Lock._wake_up_first: give the first waiter's future its result
_wake_up_last(ws, wk) == IF ws = <<>> THEN wk ELSE wk \cup {ws[Len(ws)]}
_wake_up_nobody(ws, wk) == wk
_wake_up_first(ws, wk) == IF ws = <<>> THEN wk ELSE wk \cup {Head(ws)}

\* deque.remove(fut)
remove(ws, t) == SelectSeq(ws, LAMBDA u : u # t)

(* ----------------------------- send_command ---------------------------- *)
\* line 184: if client and client.is_connected
NeedsClose(cl, conn) == cl # NoClient /\ conn

\* line 187: self._client = None
finally_client_keep(cur) == cur
finally_client(cur) == NoClient

\* line 152: self._client = None
discard_client(cur) == NoClient

\* send_command returns or raises: __aexit__ releases the lock (line 139).
\* st: history of the send, ws/wk: waiters and woken futures before the
\* release, cl/conn: self._client and is_connected as the code left them.
Finish(t, cmd, outcome, st, ws, wk, cl, conn) ==
    /\ pc' = [pc EXCEPT ![t] = "returned"]
    /\ locked' = FALSE
    /\ woken' = _wake_up_first(ws, wk)
    /\ _client' = cl
    /\ is_connected' = conn
    /\ client' = [client EXCEPT ![t] = NoClient]
    /\ command' = [command EXCEPT ![t] = <<>>]
    /\ stat' = [stat EXCEPT ![t] = InitStat]
    /\ done' = st @@ [outcome |-> outcome, task |-> t, clientAfter |-> cl,
                      command |-> cmd,
                      anyCloseErr |-> (done.anyCloseErr \/ st.closeErr)]

\* lines 154-163: resolve the device; raise UpdateFailed when it is not
\* found, else call establish_connection (one call, max_attempts=3)
Resolve(t, cmd, found, st, ws, wk, cl, conn) ==
    LET st2 == [st EXCEPT !.nResolve = @ + 1] IN
    IF found
      THEN /\ pc' = [pc EXCEPT ![t] = "connecting"]
           /\ stat' = [stat EXCEPT ![t] = [st2 EXCEPT !.nOpen = @ + 1,
                                                      !.nAttempt = @ + 1]]
           /\ locked' = TRUE
           /\ woken' = wk
           /\ _client' = cl
           /\ is_connected' = conn
           /\ UNCHANGED <<client, done>>
           /\ command' = [command EXCEPT ![t] = cmd]
      ELSE Finish(t, cmd, "DeviceNotFound", st2, ws, wk, cl, conn)

\* lines 139-146: the lock is taken; with a cached handle that reports
\* itself connected the command is written without response, else resolve.
Body(t, cmd, q, found, ws, wk) ==
    LET st == [InitStat EXCEPT !.queued = q,
                               !.after = done.outcome,
                               !.cachedAtStart = (_client # NoClient)] IN
    /\ order' = Append(order, t)
    /\ IF _client # NoClient /\ is_connected
         THEN /\ pc' = [pc EXCEPT ![t] = "direct_write"]
              /\ stat' = [stat EXCEPT ![t] = [st EXCEPT !.nDirectWrite = @ + 1,
                                                        !.wrote = @ \cup {cmd}]]
              /\ locked' = TRUE
              /\ woken' = wk
              /\ command' = [command EXCEPT ![t] = cmd]
              /\ UNCHANGED <<_client, is_connected, client, done>>
         ELSE Resolve(t, cmd, found, st, ws, wk, _client, is_connected)

\* cover.py, lines 72-74, 80-82, 88-90: the except clause of the cover method
\* that awaited the send; it catches UpdateFailed only
UpdateFailed == {"DeviceNotFound", "ConnectFailed", "SendFailed"}
except_UpdateFailed(i, outcome, available) ==
    IF i.via = "cover" /\ outcome \in UpdateFailed THEN FALSE ELSE available

\* The caller of task t, which invoked i, around its await of send_command:
\* it resumes in the step in which send_command returns or raises.
Caller(t, i) ==
    /\ intent' = [intent EXCEPT ![t] = IF pc'[t] = "returned" THEN NoIntent ELSE i]
    /\ _attr_available' =
          IF pc'[t] = "returned"
            THEN except_UpdateFailed(i, done'.outcome, _attr_available)
            ELSE _attr_available

\* send_command(cmd) is entered by task t: line 139, Lock.acquire
Acquire(t, cmd) ==
    /\ pc[t] = "idle"
    /\ \A u \in Tasks : u < t => pc[u] # "idle"
    /\ IF LockFree(locked, waiters)
         THEN /\ waiters' = waiters
              /\ \E found \in BOOLEAN : Body(t, cmd, FALSE, found, waiters, woken)
         ELSE /\ waiters' = Append(waiters, t)
              /\ pc' = [pc EXCEPT ![t] = "waiting"]
              /\ command' = [command EXCEPT ![t] = cmd]
              /\ UNCHANGED <<locked, woken, _client, is_connected, client,
                             order, stat, done>>

\* the t-th call send_command(cmd) is made
Call(t, cmd) ==
    /\ Acquire(t, cmd)
    /\ Caller(t, DirectCall)
    /\ UNCHANGED publisherVars
    /\ UNCHANGED decoderVars

\* a woken waiter resumes inside Lock.acquire: it leaves the queue, takes
\* the lock and enters the body
Resume(t) ==
    /\ pc[t] = "waiting"
    /\ t \in woken
    /\ waiters' = remove(waiters, t)
    /\ \E found \in BOOLEAN :
          Body(t, command[t], TRUE, found, remove(waiters, t), woken \ {t})
    /\ Caller(t, intent[t])
    /\ UNCHANGED publisherVars
    /\ UNCHANGED decoderVars

(* ------------------- the methods that call send_command --------------- *)
\* line 91: if not 0 <= percentage <= 100: raise ValueError
in_range_exclusive(percentage) == 0 < percentage /\ percentage < 100
in_range(percentage) == 0 <= percentage /\ percentage <= 100

\* generate_position_command: None stands for the ValueError it raises
generate_position_command(percentage) ==
    IF ~in_range(percentage)
      THEN None
      ELSE Some(_generate_command(PROPERTY_ID_SET_POSITION, percentage))

\* lines 189-216: the frame each method of the client hands to send_command
\* (None: the method raises before it calls send_command)
method_command(i) ==
    CASE i.name = "send_up_command" ->
           Some(_generate_command(PROPERTY_ID_MOVE, VALUE_UP))
      [] i.name = "send_down_command" ->
           Some(_generate_command(PROPERTY_ID_MOVE, VALUE_DOWN))
      [] i.name = "send_stop_command" ->
           Some(_generate_command(PROPERTY_ID_STOP, VALUE_STOP))
      [] i.name = "send_step_up_command" ->
           Some(_generate_command(PROPERTY_ID_STEP, VALUE_UP))
      [] i.name = "send_step_down_command" ->
           Some(_generate_command(PROPERTY_ID_STEP, VALUE_DOWN))
      [] i.name = "set_absolute_position" ->
           generate_position_command(i.arg)
      [] i.name = "set_ventilation_position" ->
           generate_position_command(50)

\* the percentages callers pass to set_absolute_position
Percentages == {-1, 0, 100, 101}

\* the methods of the client, called as such
ClientIntents ==
    { [name |-> n, arg |-> 0, via |-> "client"] :
        n \in {"send_up_command", "send_down_command", "send_stop_command",
               "send_step_up_command", "send_step_down_command",
               "set_ventilation_position"} }
      \cup { [name |-> "set_absolute_position", arg |-> p, via |-> "client"] :
               p \in Percentages }

\* cover.py: async_open_cover, async_close_cover and async_stop_cover await
\* send_up_command, send_down_command and send_stop_command in a try clause
CoverIntents ==
    { [name |-> n, arg |-> 0, via |-> "cover"] :
        n \in {"send_up_command", "send_down_command", "send_stop_command"} }

\* task t invokes method i: the frame is generated, which may raise, and
\* send_command is awaited with it
Invoke(t, i) ==
    LET cmd == method_command(i) IN
    /\ IF cmd = None
         THEN /\ pc[t] = "idle"
              /\ \A u \in Tasks : u < t => pc[u] # "idle"
              /\ pc' = [pc EXCEPT ![t] = "rejected"]
              /\ intent' = [intent EXCEPT ![t] = i]
              /\ UNCHANGED <<locked, waiters, woken, _client, is_connected,
                             client, command, order, stat, done, _attr_available>>
         ELSE /\ Acquire(t, cmd[1])
              /\ Caller(t, i)
    /\ UNCHANGED publisherVars
    /\ UNCHANGED decoderVars

\* lines 146-151: the direct write returns (return) or raises (disconnect)
DirectWriteDone(t, ok) ==
    /\ pc[t] = "direct_write"
    /\ IF ok
         THEN Finish(t, command[t], "ok", [stat[t] EXCEPT !.nWriteOk = @ + 1],
                     waiters, woken, _client, is_connected)
         ELSE /\ pc' = [pc EXCEPT ![t] = "direct_disconnect"]
              /\ stat' = [stat EXCEPT ![t].nClose = @ + 1]
              /\ UNCHANGED <<locked, woken, _client, is_connected, client, command, done>>
    /\ UNCHANGED <<waiters, order>>
    /\ Caller(t, intent[t])
    /\ UNCHANGED publisherVars
    /\ UNCHANGED decoderVars

\* lines 151-159: the disconnect of the cached handle returns (clear the
\* handle, go on with the resolve) or raises (the exception leaves
\* send_command from inside the except clause)
DirectDisconnectDone(t, ok) ==
    /\ pc[t] = "direct_disconnect"
    /\ IF ok
         THEN \E found \in BOOLEAN :
                 Resolve(t, command[t], found, stat[t], waiters, woken,
                         discard_client(_client), FALSE)
         ELSE Finish(t, command[t], "BleakError", [stat[t] EXCEPT !.closeErr = TRUE],
                     waiters, woken, _client, is_connected)
    /\ UNCHANGED <<waiters, order>>
    /\ Caller(t, intent[t])
    /\ UNCHANGED publisherVars
    /\ UNCHANGED decoderVars

\* lines 163-169: inside establish_connection an attempt fails or times out
\* and another one is made, up to max_attempts
ConnectRetry(t) ==
    /\ pc[t] = "connecting"
    /\ stat[t].nAttempt < max_attempts
    /\ stat' = [stat EXCEPT ![t].nAttempt = @ + 1]
    /\ UNCHANGED <<pc, locked, waiters, woken, _client, is_connected, client,
                   command, order, done>>
    /\ UNCHANGED publisherVars
    /\ UNCHANGED <<callerVars, decoderVars>>

\* lines 163-177 and 180-187: establish_connection returns a connected
\* handle (cache it, write with response) or raises after its attempts
\* (UpdateFailed; the finally clause finds client None)
ConnectDone(t, ok) ==
    /\ pc[t] = "connecting"
    /\ IF ok
         THEN /\ client' = [client EXCEPT ![t] = t]
              /\ _client' = t
              /\ is_connected' = TRUE
              /\ pc' = [pc EXCEPT ![t] = "writing"]
              /\ stat' = [stat EXCEPT ![t].nAckWrite = @ + 1, ![t].nAttempt = 0,
                                      ![t].opened = TRUE,
                                      ![t].wrote = @ \cup {command[t]}]
              /\ UNCHANGED <<locked, woken, command, done>>
         ELSE IF NeedsClose(client[t], is_connected)
           THEN /\ pc' = [pc EXCEPT ![t] = "closing"]
                /\ stat' = [stat EXCEPT ![t].pending = "ConnectFailed",
                                        ![t].nAttempt = 0,
                                        ![t].connectedAtFinally = TRUE,
                                        ![t].nClose = @ + 1]
                /\ UNCHANGED <<locked, woken, _client, is_connected, client, command, done>>
           ELSE Finish(t, command[t], "ConnectFailed",
                       [stat[t] EXCEPT !.pending = "ConnectFailed", !.nAttempt = 0],
                       waiters, woken, finally_client(_client), is_connected)
    /\ UNCHANGED <<waiters, order>>
    /\ Caller(t, intent[t])
    /\ UNCHANGED publisherVars
    /\ UNCHANGED decoderVars

\* lines 177-187: the acknowledged write returns or raises (UpdateFailed);
\* either way the finally clause disconnects a handle that is connected
WriteDone(t, ok) ==
    LET outcome == IF ok THEN "ok" ELSE "SendFailed"
        st == [stat[t] EXCEPT !.pending = outcome,
                              !.nWriteOk = IF ok THEN @ + 1 ELSE @,
                              !.connectedAtFinally = is_connected] IN
    /\ pc[t] = "writing"
    /\ IF NeedsClose(client[t], is_connected)
         THEN /\ pc' = [pc EXCEPT ![t] = "closing"]
              /\ stat' = [stat EXCEPT ![t] = [st EXCEPT !.nClose = @ + 1]]
              /\ UNCHANGED <<locked, woken, _client, is_connected, client, command, done>>
         ELSE Finish(t, command[t], outcome, st, waiters, woken,
                     finally_client(_client), is_connected)
    /\ UNCHANGED <<waiters, order>>
    /\ Caller(t, intent[t])
    /\ UNCHANGED publisherVars
    /\ UNCHANGED decoderVars

\* lines 186-187: the disconnect in the finally clause returns (clear the
\* cached handle, leave with the pending outcome) or raises (the exception
\* replaces the pending outcome and line 187 is not reached)
CloseDone(t, ok) ==
    /\ pc[t] = "closing"
    /\ IF ok
         THEN Finish(t, command[t], stat[t].pending, stat[t], waiters, woken,
                     finally_client(_client), FALSE)
         ELSE Finish(t, command[t], "BleakError", [stat[t] EXCEPT !.closeErr = TRUE],
                     waiters, woken, _client, is_connected)
    /\ UNCHANGED <<waiters, order>>
    /\ Caller(t, intent[t])
    /\ UNCHANGED publisherVars
    /\ UNCHANGED decoderVars

\* the radio link of the connected handle is lost (device out of range)
LinkDrop ==
    /\ is_connected
    /\ is_connected' = FALSE
    /\ UNCHANGED <<pc, locked, waiters, woken, _client, client, command,
                   order, stat, done>>
    /\ UNCHANGED publisherVars
    /\ UNCHANGED <<callerVars, decoderVars>>

\* what happens to the sends that were called
Progress ==
    \/ \E t \in Tasks : Resume(t)
    \/ \E t \in Tasks, ok \in BOOLEAN : DirectWriteDone(t, ok)
    \/ \E t \in Tasks, ok \in BOOLEAN : DirectDisconnectDone(t, ok)
    \/ \E t \in Tasks : ConnectRetry(t)
    \/ \E t \in Tasks, ok \in BOOLEAN : ConnectDone(t, ok)
    \/ \E t \in Tasks, ok \in BOOLEAN : WriteDone(t, ok)
    \/ \E t \in Tasks, ok \in BOOLEAN : CloseDone(t, ok)
    \/ LinkDrop

SendNext ==
    \/ \E t \in Tasks, cmd \in Commands : Call(t, cmd)
    \/ \E t \in Tasks : Resume(t)
    \/ \E t \in Tasks, ok \in BOOLEAN : DirectWriteDone(t, ok)
    \/ \E t \in Tasks, ok \in BOOLEAN : DirectDisconnectDone(t, ok)
    \/ \E t \in Tasks : ConnectRetry(t)
    \/ \E t \in Tasks, ok \in BOOLEAN : ConnectDone(t, ok)
    \/ \E t \in Tasks, ok \in BOOLEAN : WriteDone(t, ok)
    \/ \E t \in Tasks, ok \in BOOLEAN : CloseDone(t, ok)
    \/ LinkDrop

(* -------------------------- position publisher ------------------------ *)
\* the advertisements the Bluetooth callback may deliver
RawBytes == {0, 64, 128, 191, 255}
Payloads ==
    { BROADCAST_PREFIX \o <<raw>> : raw \in RawBytes }
      \cup { <<>>,                                  \* empty manufacturer data
             BROADCAST_PREFIX,                      \* 7 bytes: position missing
             BROADCAST_PREFIX \o <<0, 0>>,          \* 9 bytes
             COMMAND_PREFIX \o <<246, 16, 1, 0>> }  \* 8 bytes, other prefix
ManufacturerIds == {GIRA_MANUFACTURER_ID, 76}
Broadcasts ==
    { [manufacturer_data |-> (m :> p)] : m \in ManufacturerIds, p \in Payloads }

\* A valid broadcast (data model): manufacturer data of identifier 1412 of
\* exactly 8 bytes that starts with the 7-byte prefix.
IsValidBroadcast(b) ==
    /\ GIRA_MANUFACTURER_ID \in DOMAIN b.manufacturer_data
    /\ Len(b.manufacturer_data[GIRA_MANUFACTURER_ID]) = 8
    /\ \A i \in 1..7 : b.manufacturer_data[GIRA_MANUFACTURER_ID][i] = BROADCAST_PREFIX[i]

\* The percentage nearest to 100 * (255 - raw) / 255, stated without the
\* code's arithmetic: the p with |p - 100 * (255 - raw) / 255| <= 1/2
\* (255 is odd, so the distance is never exactly 1/2 and p is unique).
NearestPercent(raw) ==
    CHOOSE p \in 0..100 :
        /\ 2 * (255 * p - 100 * (255 - raw)) <= 255
        /\ 2 * (100 * (255 - raw) - 255 * p) <= 255

\* The position a valid broadcast reports
ReportedPosition(b) ==
    NearestPercent(b.manufacturer_data[GIRA_MANUFACTURER_ID][8])

\* line 127: if position is not None
has_position_truthy(position) == position # None /\ position # Some(0)
has_position(position) == position # None

\* DataUpdateCoordinator.async_set_update_data (line 130): store the data
\* and call every listener (async_update_listeners), whatever the old data
async_set_update_data_on_change(cur, new, ls) ==
    [data |-> Some(new), notified |-> IF cur = Some(new) THEN {} ELSE ls]
async_set_update_data(cur, new, ls) == [data |-> Some(new), notified |-> ls]

\* handle_broadcast is synchronous and reads and writes nothing of the
\* session: not the lock, not self._client
handle_broadcast_drops_client ==
    /\ _client' = NoClient
    /\ is_connected' = FALSE
    /\ UNCHANGED <<pc, locked, waiters, woken, client, command, order, stat, done>>
handle_broadcast_session == UNCHANGED sessionVars

\* GiraBLEClient.handle_broadcast; a notified observer runs
\* _handle_coordinator_update, which writes the entity state
handle_broadcast(service_info) ==
    LET position == parse_gira_broadcast(service_info)
        upd == async_set_update_data(data, position[1], listeners)
        valid == IsValidBroadcast(service_info) IN
    /\ IF has_position(position)
         THEN /\ data' = upd.data
              /\ notified' = upd.notified
         ELSE /\ data' = data
              /\ notified' = {}
    /\ lastIngest' = [kind |-> IF valid THEN "valid" ELSE "invalid",
                      same |-> valid /\ data = Some(ReportedPosition(service_info)),
                      listeners |-> listeners,
                      inflight |-> \E t \in Tasks : pc[t] \in InBody]
    /\ lastValid' = IF valid THEN Some(ReportedPosition(service_info)) ELSE lastValid
    /\ UNCHANGED listeners
    /\ handle_broadcast_session
    /\ UNCHANGED <<callerVars, decoderVars>>

\* CoordinatorEntity.async_added_to_hass: the entity adds its
\* _handle_coordinator_update as a listener of the coordinator
Subscribe(o) ==
    /\ o \notin listeners
    /\ listeners' = listeners \cup {o}
    /\ UNCHANGED <<data, notified, lastIngest, lastValid>>
    /\ UNCHANGED sessionVars
    /\ UNCHANGED <<callerVars, decoderVars>>

\* the entity is removed: its listener is removed
Unsubscribe(o) ==
    /\ o \in listeners
    /\ listeners' = listeners \ {o}
    /\ UNCHANGED <<data, notified, lastIngest, lastValid>>
    /\ UNCHANGED sessionVars
    /\ UNCHANGED <<callerVars, decoderVars>>

\* The advertisements handed to the decoder: every position byte behind the
\* prefix, and payloads that are empty, too short, too long or differently
\* prefixed, each under the Gira identifier and under another one.
AllBytes == 0..255
Malformed ==
    { <<>>,
      SubSeq(BROADCAST_PREFIX, 1, 3),
      BROADCAST_PREFIX,
      BROADCAST_PREFIX \o <<0, 0>>,
      BROADCAST_PREFIX \o <<128, 7>>,
      COMMAND_PREFIX \o <<246, 16, 1, 0>> }
      \cup { [BROADCAST_PREFIX \o <<128>> EXCEPT ![i] = 0] : i \in 1..7 }
DecoderInputs ==
    { [manufacturer_data |-> (m :> p)] :
        m \in ManufacturerIds,
        p \in { BROADCAST_PREFIX \o <<raw>> : raw \in AllBytes } \cup Malformed }

\* one call of parse_gira_broadcast, its argument and its result recorded
Decode(service_info) ==
    /\ decodeIn' = Some(service_info)
    /\ decodeOut' = parse_gira_broadcast(service_info)
    /\ UNCHANGED sessionVars
    /\ UNCHANGED publisherVars
    /\ UNCHANGED callerVars

\* GireaSystem3000Cover.current_cover_position
current_cover_position == data

PublisherNext ==
    \/ \E b \in Broadcasts : handle_broadcast(b)
    \/ \E o \in Observers : Subscribe(o)
    \/ \E o \in Observers : Unsubscribe(o)

(* ---------------------------- specifications --------------------------- *)
Next == SendNext

\* the connection session: any number of concurrent send_command calls
Spec == Init /\ [][Next]_vars

\* the position publisher: broadcasts and listeners
PublisherSpec == Init /\ [][PublisherNext]_vars

\* the decoder applied to every advertisement
DecoderNext == \E b \in DecoderInputs : Decode(b)
DecoderSpec == Init /\ [][DecoderNext]_vars

\* the methods of the client called concurrently, all seven of them
MethodNext ==
    \/ \E t \in 1..MaxInvokes, i \in ClientIntents : Invoke(t, i)
    \/ Progress
MethodSpec == Init /\ [][MethodNext]_vars

\* the whole integration: the cover entity calls the client while
\* advertisements arrive. The entity's methods are called only while it is
\* added to Home Assistant, and all that time it is the coordinator's
\* listener (CoordinatorEntity.async_added_to_hass).
CoverEntity == 1
SystemInit ==
    /\ pc = [t \in Tasks |-> "idle"]
    /\ locked = FALSE
    /\ waiters = <<>>
    /\ woken = {}
    /\ _client = NoClient
    /\ is_connected = FALSE
    /\ client = [t \in Tasks |-> NoClient]
    /\ command = [t \in Tasks |-> <<>>]
    /\ order = <<>>
    /\ stat = [t \in Tasks |-> InitStat]
    /\ done = InitDone
    /\ data = None
    /\ listeners = {CoverEntity}
    /\ notified = {}
    /\ lastIngest = [kind |-> "none", same |-> FALSE, listeners |-> {},
                     inflight |-> FALSE]
    /\ lastValid = None
    /\ intent = [t \in Tasks |-> NoIntent]
    /\ _attr_available = TRUE
    /\ decodeIn = None
    /\ decodeOut = None
SystemBroadcasts ==
    { [manufacturer_data |-> (GIRA_MANUFACTURER_ID :> BROADCAST_PREFIX \o <<0>>)],
      [manufacturer_data |-> (76 :> BROADCAST_PREFIX \o <<0>>)] }
SystemNext ==
    \/ \E t \in 1..MaxInvokes, i \in CoverIntents : Invoke(t, i)
    \/ Progress
    \/ \E b \in SystemBroadcasts : handle_broadcast(b)
SystemSpec == SystemInit /\ [][SystemNext]_vars

\* The connection session under a fair event loop: a woken waiter is resumed,
\* and every transport call returns or raises (each is bounded by a timeout).
\* Callers need not call, and the link need not drop.
FairSpec ==
    /\ Spec
    /\ \A t \in Tasks :
          /\ WF_vars(Resume(t))
          /\ WF_vars(\E ok \in BOOLEAN : DirectWriteDone(t, ok))
          /\ WF_vars(\E ok \in BOOLEAN : DirectDisconnectDone(t, ok))
          /\ WF_vars(\E ok \in BOOLEAN : ConnectDone(t, ok))
          /\ WF_vars(\E ok \in BOOLEAN : WriteDone(t, ok))
          /\ WF_vars(\E ok \in BOOLEAN : CloseDone(t, ok))


(* ------------------------------- claims -------------------------------- *)
Failures == {"DeviceNotFound", "ConnectFailed", "SendFailed", "BleakError"}

\* C1: The transport operations of different sends never interleave: at most
\* one send is between taking the lock and returning (so at most one
\* transport operation is in progress), it holds the lock, and a send starts
\* its resolve, open-connection or write only when no other send is there.
C1_NoInterleaving ==
    /\ [](/\ Cardinality({t \in Tasks : pc[t] \in InBody}) <= 1
          /\ \A t \in Tasks : pc[t] \in InBody => locked)
    /\ [][order' # order => \A u \in Tasks : pc[u] \notin InBody]_vars

\* a send that had to queue is performing a transport operation after an
\* earlier send returned, while another send waits for the lock
C1_Witness ==
    \E t, u \in Tasks :
        /\ pc[t] \in InBody /\ stat[t].queued
        /\ pc[u] = "waiting"
        /\ done.outcome # "none"

\* C2: Sends are served strictly in arrival order: the lock is taken in the
\* order of the calls, and when a send has started its transport operations
\* every send called before it has returned.
C2_ArrivalOrder ==
    /\ \A i \in 1..Len(order) : order[i] = i
    /\ \A t, u \in Tasks :
          (t < u /\ pc[u] \in InBody \cup {"returned"}) => pc[t] = "returned"

\* a send that queued is being served while two later sends are queued
C2_Witness ==
    /\ Len(waiters) >= 2
    /\ \E t \in Tasks : pc[t] \in InBody /\ stat[t].queued

\* C3: Under a fair event loop every send that is called returns, with
\* success or a failure, and the lock is free whenever a send returns.
C3_EverySendReturns ==
    /\ \A t \in Tasks : (pc[t] # "idle") ~> (pc[t] = "returned")
    /\ [][\A t \in Tasks :
            (pc[t] # "returned" /\ pc'[t] = "returned")
               => (~locked' /\ done'.task = t
                   /\ done'.outcome \in Failures \cup {"ok"})]_vars

\* a send that queued returned with success after the send before it failed
C3_Witness ==
    /\ done.outcome = "ok"
    /\ done.queued
    /\ done.after \in Failures
    /\ pc[done.task] = "returned"

\* C4: Whenever no send holds the session lock, the cached handle is empty.
C4_HandleEmptyWhenUnlocked == ~locked => _client = NoClient

\* C5: Errors of close-connection are not propagated: a send whose
\* acknowledged write returned or raised, and whose close-connection raised,
\* returns the outcome of the write.
C5_CloseErrorsSwallowed ==
    (done.closeErr /\ done.pending \in {"ok", "SendFailed"})
        => done.outcome = done.pending

\* C6: A send that fails with DeviceNotFound made one resolve, no
\* open-connection and no write, leaves the cached handle empty and the
\* lock free.
C6_DeviceNotFound ==
    [][\A t \in Tasks :
         (pc[t] # "returned" /\ pc'[t] = "returned"
             /\ done'.outcome = "DeviceNotFound")
           => /\ done'.nResolve = 1
              /\ done'.nOpen = 0
              /\ done'.nDirectWrite = 0 /\ done'.nAckWrite = 0
              /\ _client' = NoClient
              /\ ~locked']_vars

C8_SendFailed ==
    (done.nAckWrite >= 1 /\ done.pending = "SendFailed")
        => /\ done.outcome = "SendFailed"
           /\ done.nAckWrite = 1
           /\ (done.connectedAtFinally => done.nClose >= 1)

\* C9: The last ingest, if its broadcast was valid, stored the reported
\* position and notified every observer subscribed at that moment, whatever
\* the position stored before; if it was invalid it notified nobody.
C9_IngestNotifies ==
    /\ lastIngest.kind = "valid"
          => /\ data = lastValid /\ lastValid # None
             /\ notified = lastIngest.listeners
    /\ lastIngest.kind = "invalid" => notified = {}

\* a valid broadcast reporting the position already stored notified all
\* observers
C9_Witness ==
    /\ lastIngest.kind = "valid" /\ lastIngest.same
    /\ notified = Observers

\* C10: The position observers read is None as long as no valid broadcast
\* was ingested and else the position of the last valid broadcast, a
\* percentage in 0..100 (0 included).
C10_CurrentIsLastValid ==
    /\ current_cover_position = lastValid
    /\ current_cover_position # None => current_cover_position[1] \in 0..100

\* position 0 is known, and an invalid broadcast after it left it in place
C10_Witness ==
    /\ lastIngest.kind = "invalid"
    /\ current_cover_position = Some(0)

\* C11: Every failed send made through the cover (open, close, stop) turns
\* the entity's availability off, and every ingest of a valid broadcast
\* turns it on again.
C11_AvailabilityFollowsSends ==
    [][/\ \A t \in Tasks :
            (pc[t] # "returned" /\ pc'[t] = "returned"
                /\ done'.outcome \in Failures)
              => ~_attr_available'
       /\ \A b \in SystemBroadcasts :
            (IsValidBroadcast(b) /\ handle_broadcast(b)) => _attr_available']_vars

\* C12: set_absolute_position with a percentage outside 0..100 is rejected
\* before any I/O: the lock is not taken or queued for, nothing is resolved,
\* connected or written, and no frame exists (the value is not clamped);
\* with a percentage in 0..100, 0 and 100 included, the frame handed to
\* send_command, and every frame written for it, carries the percentage as
\* its value byte.
C12_PositionRange ==
    /\ [](\A t \in Tasks :
            /\ pc[t] = "rejected"
                 => /\ intent[t].name = "set_absolute_position"
                    /\ intent[t].arg \notin 0..100
                    /\ stat[t] = InitStat /\ command[t] = <<>>
                    /\ client[t] = NoClient
                    /\ \A k \in 1..Len(order) : order[k] # t
                    /\ \A k \in 1..Len(waiters) : waiters[k] # t
            /\ (pc[t] \in InBody /\ intent[t].name = "set_absolute_position")
                 => /\ command[t] = <<246, 3, 32, 1, 252, 16, 1, intent[t].arg>>
                    /\ stat[t].wrote \subseteq {command[t]})
    /\ [][\A t \in Tasks, p \in Percentages :
            Invoke(t, [name |-> "set_absolute_position", arg |-> p, via |-> "client"])
              => IF p \in 0..100
                   THEN /\ pc'[t] # "rejected"
                        /\ LET sent == IF pc'[t] = "returned"
                                          THEN done'.command ELSE command'[t]
                           IN  Len(sent) = 8 /\ sent[8] = p
                   ELSE /\ pc'[t] = "rejected"
                        /\ UNCHANGED <<locked, waiters, woken, _client,
                                       is_connected, client, command, order,
                                       stat, done>>]_vars

\* 101 was rejected, and the frame of 100 is being written with value 100
C12_Witness ==
    \E t, u \in Tasks :
        /\ pc[t] = "rejected" /\ intent[t].arg = 101
        /\ pc[u] = "writing"
        /\ intent[u].name = "set_absolute_position" /\ intent[u].arg = 100
        /\ stat[u].wrote = {<<246, 3, 32, 1, 252, 16, 1, 100>>}

\* the advertisement last decoded carries data of the Gira identifier, and
\* that payload
DecodedIsGira == GIRA_MANUFACTURER_ID \in DOMAIN decodeIn[1].manufacturer_data
DecodedPayload == decodeIn[1].manufacturer_data[GIRA_MANUFACTURER_ID]
\* the payload starts with F7 03 20 01 F6 10 01
HasBroadcastPrefix(payload) ==
    /\ Len(payload) >= 7
    /\ \A i \in 1..7 : payload[i] = <<247, 3, 32, 1, 246, 16, 1>>[i]

\* C13 as stated: the decoder returns no data exactly when the manufacturer
\* identifier is not 1412, the payload is shorter than 8 bytes, or the
\* payload does not start with the prefix; for every other input it returns
\* a position.
C13_NoDataExactlyWhen_Stated ==
    decodeIn # None =>
        /\ decodeOut = None
              <=> \/ ~DecodedIsGira
                  \/ Len(DecodedPayload) < 8
                  \/ ~HasBroadcastPrefix(DecodedPayload)
        /\ decodeOut # None => Len(decodeOut) = 1 /\ decodeOut[1] \in 0..100

\* C13 (amended): the decoder is total and returns no data exactly when the
\* manufacturer identifier is not 1412, the payload is not exactly 8 bytes
\* long, or the payload does not start with the prefix; for every other
\* input it returns a position in 0..100.
C13_NoDataExactlyWhen ==
    decodeIn # None =>
        /\ decodeOut = None
              <=> \/ ~DecodedIsGira
                  \/ Len(DecodedPayload) # 8
                  \/ ~HasBroadcastPrefix(DecodedPayload)
        /\ decodeOut # None => Len(decodeOut) = 1 /\ decodeOut[1] \in 0..100

\* a payload of 9 bytes that starts with the prefix was decoded to no data
C13_Witness ==
    /\ decodeIn # None /\ DecodedIsGira
    /\ Len(DecodedPayload) = 9 /\ HasBroadcastPrefix(DecodedPayload)
    /\ decodeOut = None

\* C14: For every raw position byte 0..255 of a valid broadcast the decoded
\* position is the integer nearest to 100 * (255 - raw) / 255 and lies in
\* 0..100; raw 0 decodes to 100, 255 to 0, 128 to 50, 64 to 75, 191 to 25.
C14_NearestPercent ==
    (decodeIn # None /\ IsValidBroadcast(decodeIn[1]))
       => LET raw == DecodedPayload[8] IN
          /\ decodeOut = Some(NearestPercent(raw))
          /\ decodeOut[1] \in 0..100
          /\ raw = 0 => decodeOut[1] = 100
          /\ raw = 255 => decodeOut[1] = 0
          /\ raw = 128 => decodeOut[1] = 50
          /\ raw = 64 => decodeOut[1] = 75
          /\ raw = 191 => decodeOut[1] = 25

\* raw 128, whose quotient 49.8 lies between two percentages, was decoded
\* to 50
C14_Witness ==
    /\ decodeIn # None /\ IsValidBroadcast(decodeIn[1])
    /\ DecodedPayload[8] = 128
    /\ decodeOut = Some(50)

\* the frame each intent is to produce: F6 03 20 01 PID 10 01 VAL
ExpectedFrame(i) ==
    CASE i.name = "send_up_command"          -> <<246, 3, 32, 1, 255, 16, 1, 0>>
      [] i.name = "send_down_command"        -> <<246, 3, 32, 1, 255, 16, 1, 1>>
      [] i.name = "send_stop_command"        -> <<246, 3, 32, 1, 253, 16, 1, 0>>
      [] i.name = "send_step_up_command"     -> <<246, 3, 32, 1, 254, 16, 1, 0>>
      [] i.name = "send_step_down_command"   -> <<246, 3, 32, 1, 254, 16, 1, 1>>
      [] i.name = "set_absolute_position"    -> <<246, 3, 32, 1, 252, 16, 1, i.arg>>
      [] i.name = "set_ventilation_position" -> <<246, 3, 32, 1, 252, 16, 1, 50>>

\* how often task t stands in a sequence of tasks
Occurrences(seq, t) == Cardinality({k \in 1..Len(seq) : seq[k] = t})

\* C15: Each intent (with a percentage in 0..100) produces exactly one
\* frame of 8 bytes, the one of its property and value, and exactly one
\* send of it: send_command is entered once with that frame, and a frame
\* written for the intent is that frame.
C15_OneFramePerIntent ==
    /\ [](\A t \in Tasks :
            /\ Occurrences(order, t) + Occurrences(waiters, t) <= 1
            /\ pc[t] \in InBody \cup {"waiting"}
                  => /\ command[t] = ExpectedFrame(intent[t])
                     /\ Len(command[t]) = 8
                     /\ stat[t].wrote \subseteq {ExpectedFrame(intent[t])})
    /\ [][\A t \in Tasks, i \in ClientIntents :
            (Invoke(t, i) /\ i.arg \in 0..100)
              => /\ pc[t] = "idle" /\ pc'[t] \in InBody \cup {"waiting", "returned"}
                 /\ IF pc'[t] = "returned"
                      THEN done'.task = t /\ done'.command = ExpectedFrame(i)
                      ELSE /\ command'[t] = ExpectedFrame(i)
                           /\ Occurrences(order', t) + Occurrences(waiters', t) = 1]_vars

\* the frame of a step down is being written while the ventilation position
\* waits for the lock with its frame
C15_Witness ==
    \E t, u \in Tasks :
        /\ pc[t] = "writing" /\ intent[t].name = "send_step_down_command"
        /\ stat[t].wrote = {<<246, 3, 32, 1, 254, 16, 1, 1>>}
        /\ pc[u] = "waiting" /\ intent[u].name = "set_ventilation_position"
        /\ command[u] = <<246, 3, 32, 1, 252, 16, 1, 50>>

\* C16: Every send writes at most once, and a send that succeeds has
\* invoked the write exactly once, with its frame.
C16_OneWritePerSend ==
    /\ \A t \in Tasks : stat[t].nDirectWrite + stat[t].nAckWrite <= 1
    /\ done.nDirectWrite + done.nAckWrite <= 1
    /\ done.outcome = "ok"
          => /\ done.nDirectWrite + done.nAckWrite = 1
             /\ done.wrote = {done.command}

\* C17: A send that finds a cached handle that reports itself connected
\* writes without acknowledgement; when that write fails, the cached handle
\* is disconnected, a failure of the disconnect is ignored, the handle is
\* cleared, and the same send goes on with the resolve (and, the device
\* found, with a fresh connection and an acknowledged write).
C17_DirectWriteFallback ==
    [][\A t \in Tasks :
         /\ (pc[t] \in {"idle", "waiting"} /\ pc'[t] \in InBody \cup {"returned"}
                /\ _client # NoClient /\ is_connected)
              => pc'[t] = "direct_write" /\ stat'[t].nDirectWrite = 1
         /\ (pc[t] = "direct_disconnect" /\ pc'[t] # "direct_disconnect")
              => /\ _client' = NoClient
                 /\ IF pc'[t] = "returned"
                      THEN done'.outcome = "DeviceNotFound" /\ done'.nResolve = 1
                      ELSE pc'[t] = "connecting" /\ stat'[t].nResolve = 1]_vars

\* The state of the connection session read off the program: what the send
\* that holds the lock is doing, and else whether a handle is cached.
\* (Connected is passed between lines 170 and 177 without an await.)
SessionState ==
    IF \E t \in Tasks : pc[t] = "connecting" THEN "Connecting"
    ELSE IF \E t \in Tasks : pc[t] \in {"writing", "direct_write"} THEN "Sending"
    ELSE IF \E t \in Tasks : pc[t] \in {"closing", "direct_disconnect"}
      THEN "Disconnecting"
    ELSE IF _client # NoClient THEN "Connected"
    ELSE "Idle"

\* Idle -> Connecting -> Connected -> Sending -> Disconnecting -> Idle, and
\* the failure edges Connecting -> Idle and Sending -> Idle
SessionEdges ==
    { <<"Idle", "Connecting">>, <<"Connecting", "Connected">>,
      <<"Connecting", "Sending">>, <<"Connected", "Sending">>,
      <<"Sending", "Disconnecting">>, <<"Disconnecting", "Idle">>,
      <<"Connecting", "Idle">>, <<"Sending", "Idle">> }

\* no send is between its call and its return
NoSendInFlight == \A t \in Tasks : pc[t] \notin InBody \cup {"waiting"}

\* C18: The session moves only along Idle, Connecting, Connected, Sending,
\* Disconnecting, Idle, with failure edges from Connecting and Sending to
\* Idle; a send writes only after its own open-connection succeeded; the
\* session is Idle whenever no send is in flight.
C18_SessionStateMachine ==
    /\ [](/\ NoSendInFlight => SessionState = "Idle"
          /\ \A t \in Tasks : stat[t].wrote # {} => stat[t].opened)
    /\ [][\/ SessionState' = SessionState
          \/ <<SessionState, SessionState'>> \in SessionEdges]_vars

\* C19: The publisher and the session are independent: no step of a send,
\* whatever its outcome, changes the current position or notifies an
\* observer; an ingest can happen in every state, a send in flight or not,
\* and no step that publishes changes the lock, its queue, the cached handle
\* or the position of a send.
C19_PublisherSessionIndependent ==
    /\ [](\A b \in SystemBroadcasts : ENABLED handle_broadcast(b))
    /\ [][/\ (pc' # pc \/ done' # done)
              => UNCHANGED <<data, notified, listeners, lastValid>>
          /\ (data' # data \/ notified' # notified \/ lastIngest' # lastIngest)
              => UNCHANGED <<pc, locked, waiters, woken, _client, is_connected>>]_vars

\* a valid broadcast was ingested and the cover notified while a send held
\* the lock, a handle was cached, and that send is still writing
C19_Witness ==
    /\ lastIngest.kind = "valid" /\ lastIngest.inflight
    /\ notified = {CoverEntity}
    /\ locked /\ _client # NoClient
    /\ \E t \in Tasks : pc[t] = "writing"
    /\ done.outcome = "none"

\* C20: As long as no disconnect has raised, self._client is None whenever
\* a send takes the lock (and whenever the lock is free), so every send
\* resolves the device, connects afresh and writes with acknowledgement;
\* the write without acknowledgement on a cached handle is never made.
C20_NoDirectWriteWithoutCloseFailure ==
    ~done.anyCloseErr =>
        /\ ~locked => _client = NoClient
        /\ \A t \in Tasks :
              pc[t] \in InBody
                 => /\ ~stat[t].cachedAtStart
                    /\ stat[t].nDirectWrite = 0
                    /\ stat[t].nResolve = 1
                    /\ pc[t] \in {"connecting", "writing", "closing"}
                    /\ stat[t].nAckWrite >= 1 => stat[t].opened
        /\ ~done.cachedAtStart /\ done.nDirectWrite = 0
        /\ done.outcome = "ok"
              => done.nResolve = 1 /\ done.nOpen = 1 /\ done.nAckWrite = 1

\* no disconnect has raised, a send returned with success after its
\* disconnect, and the send that queued behind it found no handle and is
\* writing with acknowledgement on a connection of its own
C20_Witness ==
    /\ ~done.anyCloseErr
    /\ done.outcome = "ok" /\ done.nClose = 1
    /\ \E t \in Tasks :
          /\ pc[t] = "writing" /\ stat[t].queued
          /\ ~stat[t].cachedAtStart /\ stat[t].opened

====
